---- MODULE Spec2Model ----
(***************************************************************************)
(* Model of myntra.py: one run of scrape(url, products_scrape) as started  *)
(* by the __main__ block.  get_html_selenium drives a browser session and  *)
(* scrolls until the page height is stable, scrape writes the markup to a  *)
(* temporary file, scrape_products extracts the records, deletes the file  *)
(* and hands the records to save_to_excel.                                 *)
(*                                                                         *)
(* Python values: text is a TLA+ string; None, a missing sub-element and a *)
(* missing attribute are sentinel strings that no text of the modelled     *)
(* pages equals.  An exception is named by its class.                      *)
(***************************************************************************)
EXTENDS Naturals, Sequences, FiniteSets, TLC

\* ---- bounds of the model ------------------------------------------------
MaxChildren == 3      \* children of the results container
MaxCount == 3         \* largest products_scrape
MaxHeightUnits == 3   \* page heights are 0..MaxHeightUnits units
HeightUnit == 250     \* pixels in one unit of page height
MaxChanges == 2       \* height changes a finite page makes

\* ---- program constants --------------------------------------------------
scroll_step == 300
url == "https://www.myntra.com"

\* ---- Python values ------------------------------------------------------
None == "<None>"
Absent == "<absent>"       \* find(...) found no such sub-element
NoAttr == "<no-attr>"      \* the element has no such attribute
NoSpan == "<no-span>"      \* ratings container without a span
Pending == "<pending>"     \* the call has not returned yet

Heights == {h * HeightUnit : h \in 0..MaxHeightUnits}

\* ---- pages --------------------------------------------------------------
\* A child of the results container, by the sub-elements the extraction
\* looks up: name / price text, img src, ratings span text, href of the
\* first <a>.  The children are element tags (no text nodes between the
\* tiles).  url is the module-level name bound at line 251 before scrape is
\* called.
Child(n, i, p, r, a) == [name |-> n, image |-> i, price |-> p, rating |-> r, a |-> a]

ChildKinds ==
    { Child("Shirt", "img.jpg", "Rs. 499", "4.2", "shirts/1"),   \* complete tile
      Child(Absent, Absent, Absent, Absent, "shirts/2"),         \* link only
      Child("Shirt", "img.jpg", "Rs. 499", Absent, Absent),      \* no <a>
      Child("Shirt", Absent, "Rs. 499", "4.2", ""),              \* href=""
      Child(Absent, Absent, Absent, Absent, Absent),             \* empty tile
      Child("Shirt", "img.jpg", "Rs. 499", "4.2", NoAttr),       \* <a> without href
      Child("Shirt", "img.jpg", "Rs. 499", NoSpan, "shirts/3") } \* ratings without span

SeqsUpTo(S, n) == UNION {[1..k -> S] : k \in 0..n}

NoHtml == [container |-> FALSE, children |-> <<>>, fetched |-> FALSE]

Htmls ==
    {[container |-> FALSE, children |-> <<>>, fetched |-> TRUE]} \cup
    {[container |-> TRUE, children |-> s, fetched |-> TRUE] : s \in SeqsUpTo(ChildKinds, MaxChildren)}

Min(a, b) == IF a <= b THEN a ELSE b

VARIABLES
    pc,               \* position of the run
    products_scrape,  \* requested count
    driver,           \* browser session: "none", "active", "quit"
    pageEndless,      \* the page changes height on every pass
    changesLeft,      \* height changes a finite page still makes
    last_height,
    new_height,
    scroll_pos,       \* loop variable of range(0, last_height, scroll_step)
    passes,           \* a full pass has completed
    html,             \* page_source / content of the temporary file
    fileExists,       \* the temporary file is on disk
    wrote,            \* scrape wrote the temporary file
    products,         \* list(products)[:products_scrape]
    idx,              \* position of the for loop in products
    scrapped_products, \* the list bound at line 134 (empty before)
    origin,           \* position in the container of each record's child
    fetchErr,         \* exception raised by get_html_selenium
    extractErr,       \* exception raised inside the try of scrape_products
    saveCalls,        \* calls of save_to_excel
    exported,         \* argument of save_to_excel
    saveErr,          \* save_to_excel raised
    result,           \* what scrape_products returned
    outcome           \* what scrape returned

fetchVars == <<driver, pageEndless, changesLeft, last_height, new_height, scroll_pos, passes>>
extractVars == <<products, idx, scrapped_products, origin, extractErr>>
saveVars == <<saveCalls, exported, saveErr>>
vars == <<pc, products_scrape, fetchVars, html, fileExists, wrote, extractVars,
          fetchErr, saveVars, result, outcome>>

Init ==
    /\ pc = "start"
    /\ products_scrape \in 1..MaxCount
    /\ driver = "none"
    /\ pageEndless \in BOOLEAN
    /\ changesLeft = (IF pageEndless THEN 0 ELSE MaxChanges)
    /\ last_height = 0
    /\ new_height = 0
    /\ scroll_pos = 0
    /\ passes = FALSE
    /\ html = NoHtml
    /\ fileExists = FALSE
    /\ wrote = FALSE
    /\ products = <<>>
    /\ idx = 0
    /\ scrapped_products = <<>>
    /\ origin = <<>>
    /\ fetchErr = "none"
    /\ extractErr = "none"
    /\ saveCalls = 0
    /\ exported = <<>>
    /\ saveErr = FALSE
    /\ result = Pending
    /\ outcome = Pending

\* ---- scrape: the except clause ------------------------------------------
Exceptions == {"WebDriverException", "AttributeError", "TypeError", "UnboundLocalError", "OSError"}

\* except Exception as err
ScrapeCatchesAttributeErrorOnly(exc) == exc = "AttributeError"
ScrapeCatches(exc) == exc \in Exceptions

\* outcome of scrape when exc reaches its try block
ScrapeExcept(exc) == IF ScrapeCatches(exc) THEN None ELSE "raised"

\* outcome of scrape when scrape_products returned res
ScrapeReturn(res) == IF res \in {None, "0"} THEN res ELSE "True"

\* ---- scrape, lines 79-87: enter the try block and call get_html_selenium
ScrapeStart ==
    /\ pc = "start"
    /\ pc' = "f_start"
    /\ UNCHANGED <<products_scrape, fetchVars, html, fileExists, wrote, extractVars,
                   fetchErr, saveVars, result, outcome>>

\* ---- get_html_selenium --------------------------------------------------
FetchPcs == {"f_start", "f_get", "f_measure", "f_scroll", "f_source", "f_quit"}

\* an exception leaves get_html_selenium and reaches the except clause of
\* scrape, which returns
FetchFails(exc) ==
    /\ fetchErr' = exc
    /\ outcome' = ScrapeExcept(exc)
    /\ pc' = "returned"

\* lines 32-33: the driver is installed and the session started
StartDriver ==
    /\ pc = "f_start"
    /\ driver' = "active"
    /\ pc' = "f_get"
    /\ UNCHANGED <<products_scrape, pageEndless, changesLeft, last_height, new_height,
                   scroll_pos, passes, html, fileExists, wrote, extractVars,
                   fetchErr, saveVars, result, outcome>>

\* lines 32-33 raise: no session was started
StartDriverRaises ==
    /\ pc = "f_start"
    /\ FetchFails("WebDriverException")
    /\ UNCHANGED <<products_scrape, fetchVars, html, fileExists, wrote, extractVars,
                   saveVars, result>>

\* lines 36-39: driver.get(url), implicitly_wait
Navigate ==
    /\ pc = "f_get"
    /\ pc' = "f_measure"
    /\ UNCHANGED <<products_scrape, fetchVars, html, fileExists, wrote, extractVars,
                   fetchErr, saveVars, result, outcome>>

\* line 42: last_height = scrollHeight
MeasureHeight ==
    /\ pc = "f_measure"
    /\ \E h \in Heights : last_height' = h
    /\ scroll_pos' = 0
    /\ pc' = "f_scroll"
    /\ UNCHANGED <<products_scrape, driver, pageEndless, changesLeft, new_height, passes,
                   html, fileExists, wrote, extractVars, fetchErr, saveVars, result, outcome>>

\* lines 45-47: one iteration of for _ in range(0, last_height, scroll_step)
ScrollStep ==
    /\ pc = "f_scroll"
    /\ scroll_pos < last_height
    /\ scroll_pos' = scroll_pos + scroll_step
    /\ UNCHANGED <<pc, products_scrape, driver, pageEndless, changesLeft, last_height,
                   new_height, passes, html, fileExists, wrote, extractVars,
                   fetchErr, saveVars, result, outcome>>

\* line 56: if new_height == last_height: break
LoopConvergedNoGrowth(new, last) == new <= last
LoopConverged(new, last) == new = last

\* lines 50-58: the pass is complete; the height is measured again.  An
\* endless page has a different height after every pass, a finite page
\* changes its height changesLeft more times.
Remeasure ==
    /\ pc = "f_scroll"
    /\ scroll_pos >= last_height
    /\ \E h \in Heights :
          /\ IF pageEndless
                THEN h # last_height /\ UNCHANGED changesLeft
                ELSE \/ h = last_height /\ UNCHANGED changesLeft
                     \/ h # last_height /\ changesLeft > 0 /\ changesLeft' = changesLeft - 1
          /\ new_height' = h
          /\ IF LoopConverged(h, last_height)
                THEN pc' = "f_source" /\ UNCHANGED <<last_height, scroll_pos>>
                ELSE pc' = "f_scroll" /\ last_height' = h /\ scroll_pos' = 0
    /\ passes' = TRUE
    /\ UNCHANGED <<products_scrape, driver, pageEndless, html, fileExists, wrote,
                   extractVars, fetchErr, saveVars, result, outcome>>

\* line 61: page_source
PageSource ==
    /\ pc = "f_source"
    /\ \E h \in Htmls : html' = h
    /\ pc' = "f_quit"
    /\ UNCHANGED <<products_scrape, fetchVars, fileExists, wrote, extractVars,
                   fetchErr, saveVars, result, outcome>>

\* lines 64-66: driver.quit(), return page_source
QuitDriver ==
    /\ pc = "f_quit"
    /\ driver' = "quit"
    /\ pc' = "write"
    /\ UNCHANGED <<products_scrape, pageEndless, changesLeft, last_height, new_height,
                   scroll_pos, passes, html, fileExists, wrote, extractVars,
                   fetchErr, saveVars, result, outcome>>

\* lines 36-61: a call on the started driver raises (navigation, scroll
\* step, height measurement, page_source)
DriverOpRaises ==
    /\ pc \in {"f_get", "f_measure", "f_scroll", "f_source"}
    /\ FetchFails("WebDriverException")
    /\ UNCHANGED <<products_scrape, fetchVars, html, fileExists, wrote, extractVars,
                   saveVars, result>>

\* lines 88-89: the markup is written to the temporary file
WriteArtifact ==
    /\ pc = "write"
    /\ fileExists' = TRUE
    /\ wrote' = TRUE
    /\ pc' = "find"
    /\ UNCHANGED <<products_scrape, fetchVars, html, extractVars, fetchErr, saveVars,
                   result, outcome>>

\* ---- scrape_products: field extraction, lines 138-142 -------------------
ProductName(c) == IF c.name # Absent THEN c.name ELSE ""
ProductImage(c) == IF c.image # Absent THEN c.image ELSE ""
ProductPrice(c) == IF c.price # Absent THEN c.price ELSE ""

\* line 141: find(ratings).find("span").text dereferences None when the
\* ratings container has no span
RatingRaises(c) == c.rating = NoSpan
ProductRating(c) == IF c.rating # Absent THEN c.rating ELSE ""

\* line 142: attrs.get('href') is None when the <a> has no href
ProductLink(c) == IF c.a # Absent THEN (IF c.a = NoAttr THEN None ELSE c.a) ELSE ""

\* line 144
ExcludedOnlyWhenAllEmpty(name, price, link) == name = "" /\ price = "" /\ link = ""
Excluded(name, price, link) == (name = "" /\ price = "" /\ link = "") \/ link = ""

\* line 152: str + None raises TypeError
LinkRaises(link) == link = None

\* lines 147-153
ProductData(c) ==
    [Name |-> ProductName(c), Image |-> ProductImage(c), Price |-> ProductPrice(c),
     Rating |-> ProductRating(c), Link |-> url \o "/" \o ProductLink(c)]

\* what one iteration of the for loop does with child c
ChildOutcome(c) ==
    IF RatingRaises(c) THEN "AttributeError"
    ELSE IF Excluded(ProductName(c), ProductPrice(c), ProductLink(c)) THEN "skip"
    ELSE IF LinkRaises(ProductLink(c)) THEN "TypeError"
    ELSE "append"

\* line 125: products is the iterator container.children, and an iterator
\* is never falsy
NotProducts(children) == FALSE

\* line 132: list(products)[:products_scrape]
NoTruncate(children, n) == children
Truncate(children, n) == SubSeq(children, 1, Min(n, Len(children)))

\* line 145, continue: the loop goes on with the next child
BreakScan(i, n) == n + 1
ContinueScan(i, n) == i + 1

\* lines 157-160: the AttributeError clause.  bound: line 134 has assigned
\* scrapped_products.  Reading the name before that raises
\* UnboundLocalError, which leaves scrape_products and is caught by scrape.
AttributeErrorClause(bound, scrapped) ==
    /\ extractErr' = "AttributeError"
    /\ IF ~bound
          THEN /\ outcome' = ScrapeExcept("UnboundLocalError")
               /\ pc' = "returned"
               /\ UNCHANGED result
       ELSE IF scrapped = <<>>
          THEN /\ result' = None
               /\ outcome' = ScrapeReturn(None)
               /\ pc' = "returned"
          ELSE /\ pc' = "clean"
               /\ UNCHANGED <<result, outcome>>

\* lines 161-163: the Exception clause
ExceptionClause(exc) ==
    /\ extractErr' = exc
    /\ result' = None
    /\ outcome' = ScrapeReturn(None)
    /\ pc' = "returned"

\* lines 115-134: read and parse the file, locate the container, take its
\* children
FindContainer ==
    /\ pc = "find"
    /\ IF ~html.container
          THEN /\ AttributeErrorClause(FALSE, scrapped_products)
               /\ UNCHANGED <<products, idx, scrapped_products, origin, fileExists>>
       ELSE IF NotProducts(html.children)
          THEN /\ fileExists' = FALSE
               /\ result' = "0"
               /\ outcome' = ScrapeReturn("0")
               /\ pc' = "returned"
               /\ UNCHANGED <<products, idx, scrapped_products, origin, extractErr>>
          ELSE /\ products' = Truncate(html.children, products_scrape)
               /\ scrapped_products' = <<>>
               /\ idx' = 1
               /\ pc' = "scan"
               /\ UNCHANGED <<origin, extractErr, fileExists, result, outcome>>
    /\ UNCHANGED <<products_scrape, fetchVars, html, wrote, fetchErr, saveVars>>

\* lines 137-155: one iteration of the for loop
ScanChild ==
    /\ pc = "scan"
    /\ idx <= Len(products)
    /\ LET c == products[idx]
           o == ChildOutcome(c)
       IN  CASE o = "append" ->
                  /\ scrapped_products' = Append(scrapped_products, ProductData(c))
                  /\ origin' = Append(origin, idx)
                  /\ idx' = idx + 1
                  /\ UNCHANGED <<pc, extractErr, result, outcome>>
             [] o = "skip" ->
                  /\ idx' = ContinueScan(idx, Len(products))
                  /\ UNCHANGED <<pc, scrapped_products, origin, extractErr, result, outcome>>
             [] o = "AttributeError" ->
                  /\ AttributeErrorClause(TRUE, scrapped_products)
                  /\ UNCHANGED <<idx, scrapped_products, origin>>
             [] o = "TypeError" ->
                  /\ ExceptionClause("TypeError")
                  /\ UNCHANGED <<idx, scrapped_products, origin>>
    /\ UNCHANGED <<products_scrape, fetchVars, html, fileExists, wrote, products,
                   fetchErr, saveVars>>

\* the for loop is exhausted
ScanDone ==
    /\ pc = "scan"
    /\ idx > Len(products)
    /\ pc' = "clean"
    /\ UNCHANGED <<products_scrape, fetchVars, html, fileExists, wrote, extractVars,
                   fetchErr, saveVars, result, outcome>>

\* line 166 and clean(), lines 237-244
Clean ==
    /\ pc = "clean"
    /\ fileExists' = FALSE
    /\ pc' = "export"
    /\ UNCHANGED <<products_scrape, fetchVars, html, wrote, extractVars, fetchErr,
                   saveVars, result, outcome>>

\* lines 169-171: save_to_excel(scrapped_products) returns; return True
SaveToExcel ==
    /\ pc = "export"
    /\ saveCalls' = saveCalls + 1
    /\ exported' = scrapped_products
    /\ result' = "True"
    /\ outcome' = ScrapeReturn("True")
    /\ pc' = "returned"
    /\ UNCHANGED <<products_scrape, fetchVars, html, fileExists, wrote, extractVars,
                   fetchErr, saveErr>>

\* line 169: save_to_excel raises (the workbook cannot be written); the
\* exception leaves scrape_products and is caught by scrape
SaveToExcelRaises ==
    /\ pc = "export"
    /\ saveCalls' = saveCalls + 1
    /\ exported' = scrapped_products
    /\ saveErr' = TRUE
    /\ outcome' = ScrapeExcept("OSError")
    /\ pc' = "returned"
    /\ UNCHANGED <<products_scrape, fetchVars, html, fileExists, wrote, extractVars,
                   fetchErr, result>>

Next ==
    \/ ScrapeStart
    \/ StartDriver
    \/ StartDriverRaises
    \/ Navigate
    \/ MeasureHeight
    \/ ScrollStep
    \/ Remeasure
    \/ PageSource
    \/ QuitDriver
    \/ DriverOpRaises
    \/ WriteArtifact
    \/ FindContainer
    \/ ScanChild
    \/ ScanDone
    \/ Clean
    \/ SaveToExcel
    \/ SaveToExcelRaises

Spec == Init /\ [][Next]_vars

\* the interpreter runs the next statement: the run does not stop while a
\* step is enabled
LiveSpec == Init /\ [][Next]_vars /\ WF_vars(Next)

TypeOK ==
    /\ pc \in FetchPcs \cup {"start", "write", "find", "scan", "clean", "export", "returned"}
    /\ products_scrape \in 1..MaxCount
    /\ driver \in {"none", "active", "quit"}
    /\ last_height \in Heights /\ new_height \in Heights
    /\ outcome \in {Pending, None, "0", "True", "raised"}
    /\ result \in {Pending, None, "0", "True"}

\* ---- vocabulary of the properties ---------------------------------------
Range(f) == {f[i] : i \in DOMAIN f}

\* the children the scan may visit: the first products_scrape of the container
FirstN == 1..Min(products_scrape, Len(html.children))

\* the raw href is present and non-empty
HasLink(c) == c.a \notin {Absent, NoAttr, ""}

\* the markup of the child makes its field extraction raise
Malformed(c) == c.rating = NoSpan \/ c.a = NoAttr

\* scrape_products ran on a page with a container and is past its try block
ExtractionEnded == wrote /\ html.container /\ pc \in {"clean", "export", "returned"}

\* get_html_selenium has returned or raised
FetchEnded == pc \notin FetchPcs \cup {"start"}

\* C1: in a run that wrote the temporary file, the file no longer exists
\* when save_to_excel starts and when scrape returns.
C1_ArtifactDeleted ==
    (wrote /\ pc \in {"export", "returned"}) => ~fileExists

\* C2: a page without the results container makes scrape_products return 0
\* and scrape report NoProducts (0), never Failure (None).
C2_NoContainerNoProducts ==
    (pc = "returned" /\ wrote /\ ~html.container) => (result = "0" /\ outcome = "0")

\* C3: when extraction ends with zero records and no error (in particular a
\* container without children), scrape reports NoProducts (0) and
\* save_to_excel is not called.
C3_ZeroRecordsNoExport ==
    (pc = "returned" /\ wrote /\ html.container /\ extractErr = "none"
        /\ scrapped_products = <<>>)
    => (outcome = "0" /\ saveCalls = 0)

\* C4: when a child's extraction raises (whatever the error), with k >= 1
\* records accumulated the k records are exported and the outcome is Success,
\* with none accumulated the outcome is Failure.  (Runs in which the export
\* itself fails are left out.)
C4_ChildErrorKeepsAccumulated ==
    (pc = "returned" /\ wrote /\ html.container /\ extractErr # "none" /\ ~saveErr)
    => IF scrapped_products # <<>>
          THEN outcome = "True" /\ saveCalls = 1 /\ exported = scrapped_products
          ELSE outcome = None /\ saveCalls = 0

\* C5 as stated: a child whose extraction raises does not stop the scan, so
\* every well-formed child with a non-empty link after it among the first
\* products_scrape children yields a record.  (Stated for the runs whose
\* error, if any, is the AttributeError the scan is written to tolerate.)
C5_RaisingChildSkipped ==
    (ExtractionEnded /\ extractErr # "TypeError") =>
        \A k \in FirstN :
            (HasLink(html.children[k]) /\ ~Malformed(html.children[k])
                /\ \E m \in 1..(k - 1) : Malformed(html.children[m]))
            => k \in Range(origin)

\* C5 amended: a child whose extraction raises stops the scan: every record
\* comes from a child before the first raising child and no later child
\* yields one; an excluded child (empty link) does not stop the scan, so
\* every child with a non-empty link among the first products_scrape that no
\* raising child precedes yields a record.
C5_RaisingChildStopsScan ==
    /\ \A j \in DOMAIN origin : \A m \in 1..origin[j] : ~Malformed(html.children[m])
    /\ ExtractionEnded =>
          \A k \in FirstN :
              (HasLink(html.children[k]) /\ \A m \in 1..k : ~Malformed(html.children[m]))
              => k \in Range(origin)

C5_Witness ==
    /\ pc = "returned" /\ ExtractionEnded /\ Len(origin) = 1
    /\ extractErr = "AttributeError" /\ outcome = "True"
    /\ \E e, k, m \in FirstN :
          /\ e < k /\ k < m
          /\ ~HasLink(html.children[e]) /\ ~Malformed(html.children[e])
          /\ origin[1] = k
          /\ Malformed(html.children[m])

C7_LinkNonEmpty ==
    /\ Len(origin) = Len(scrapped_products)
    /\ \A j \in DOMAIN scrapped_products :
          LET c == html.children[origin[j]]
          IN  /\ HasLink(c)
              /\ scrapped_products[j].Link = url \o "/" \o c.a
              /\ scrapped_products[j].Link # ""
    /\ \A j \in DOMAIN exported : exported[j].Link # ""
    /\ \A k \in 1..(idx - 1) :
          LET c == products[k]
          IN  /\ c.a \in {Absent, ""} => k \notin Range(origin)
              /\ (HasLink(c) /\ c.name = Absent /\ c.image = Absent
                     /\ c.price = Absent /\ c.rating = Absent)
                 => \E j \in DOMAIN origin :
                       /\ origin[j] = k
                       /\ scrapped_products[j] =
                            [Name |-> "", Image |-> "", Price |-> "", Rating |-> "",
                             Link |-> url \o "/" \o c.a]

C7_Witness ==
    /\ pc = "returned" /\ outcome = "True"
    /\ \E j \in DOMAIN exported : exported[j].Name = "" /\ exported[j].Price = ""
    /\ \E k \in 1..(idx - 1) : products[k].a = "" /\ products[k].name # Absent

\* C8: extraction returns at most products_scrape records, all from the
\* first products_scrape children, in document order; an excluded child is
\* not replaced by a later one.
C8_AtMostMaxCountInOrder ==
    /\ Len(scrapped_products) <= products_scrape
    /\ Len(origin) = Len(scrapped_products)
    /\ \A j \in DOMAIN origin :
          /\ origin[j] \in FirstN
          /\ scrapped_products[j] = ProductData(html.children[origin[j]])
          /\ \A i \in 1..(j - 1) : origin[i] < origin[j]
    /\ saveCalls > 0 => exported = scrapped_products

C8_Witness ==
    /\ pc = "returned" /\ outcome = "True" /\ extractErr = "none"
    /\ Len(html.children) > products_scrape
    /\ Len(exported) < products_scrape /\ Len(exported) > 0
    /\ HasLink(html.children[products_scrape + 1])
    /\ ~Malformed(html.children[products_scrape + 1])

\* C9: a browser session that get_html_selenium started is terminated
\* (driver.quit) before get_html_selenium returns or raises.
C9_SessionTerminated ==
    FetchEnded => driver # "active"

\* C10: the scroll loop leaves only after a full pass whose re-measured
\* height equals the height before it, and otherwise repeats with the new
\* height from position 0; at least one pass precedes page_source; on a page
\* whose height stops changing the loop terminates; on a page whose height
\* differs after every pass the loop never returns.
C10_ScrollLoop ==
    /\ [][(pc = "f_scroll" /\ pc' = "f_source")
            => (scroll_pos >= last_height /\ new_height' = last_height
                  /\ last_height' = last_height /\ passes')]_vars
    /\ [][(pc = "f_scroll" /\ scroll_pos >= last_height /\ pc' = "f_scroll")
            => (new_height' # last_height /\ last_height' = new_height'
                  /\ scroll_pos' = 0)]_vars
    /\ [][(pc = "f_scroll" /\ scroll_pos < last_height)
            => pc' \in {"f_scroll", "returned"}]_vars
    /\ [](pc \in {"f_source", "f_quit", "write"} => passes)
    /\ [](pageEndless => (FetchEnded => fetchErr # "none"))
    /\ (~pageEndless) ~> (pc \notin {"start", "f_start", "f_get", "f_measure", "f_scroll"})

C10_Witness ==
    /\ pc = "f_source" /\ ~pageEndless /\ changesLeft < MaxChanges
    /\ last_height > scroll_step /\ scroll_pos >= last_height

====
